---- MODULE Spec2Model ----
(***************************************************************************)
(* A model of src/main.go: a sequential script that connects to a document *)
(* store, (re)creates the table "geospatial" with a geo index "area",      *)
(* inserts five seed records and runs three nearest-neighbour queries.     *)
(*                                                                         *)
(* The store is the program's environment.  It is modelled by the Store*   *)
(* operators below: tables are unique by name, a table carries a set of    *)
(* indexes and a sequence of documents, the store assigns a fresh id to a  *)
(* document inserted without one, and every call may also fail for an      *)
(* external reason (a "fault": network, server).                           *)
(*                                                                         *)
(* Fixed point: coordinates are in units of 1/10000000 degree, distances   *)
(* in units of 1/100000 mile (rounded down).                               *)
(***************************************************************************)
EXTENDS Integers, Sequences, FiniteSets, TLC

VARIABLES
    driver,    \* "main": func main runs; "ops": the functions are called one by one
    ip,        \* main: index in MainBody of the statement being executed
    pc,        \* position inside the current function
    idx,       \* insertRecords: index of the loop over records
    tables,    \* store: names of the tables of database DBName
    indexes,   \* store: indexes of table tableName, [name, geo]
    rows,      \* store: documents of table tableName, in insertion order
    nextId,    \* store: source of generated identifiers
    rowsA,     \* getNearestWithDistances: var rows []*RecordWithDistance
    rowsB,     \* getNearest: var rows []*Record
    rowsC,     \* getNearestByName: var rows []*Record
    log,       \* lines written through package log
    trace,     \* history: the steps begun so far, in order
    errs,      \* history: the calls that returned an error, [step, cause]
    attempts,  \* history: the inserts attempted by the current insertRecords
    base,      \* history: Len(rows) when the current insertRecords began
    snaps,     \* history: the schema after each completed createTable
    loads,     \* history: fault-free insertRecords runs since the table was empty
    nfaults    \* ops: external faults injected so far

vars == <<driver, ip, pc, idx, tables, indexes, rows, nextId, rowsA, rowsB,
          rowsC, log, trace, errs, attempts, base, snaps, loads, nfaults>>

-----------------------------------------------------------------------------
(* Bounds of the model *)

\* ops: the number of function calls explored
MaxCalls == 3
\* ops: the number of external faults explored
MaxOpFaults == 2

-----------------------------------------------------------------------------
(* Program constants and data *)

DBName == "test"
tableName == "geospatial"
indexName == "area"

Point(lon, lat) == [Lon |-> lon, Lat |-> lat]

records == <<
    [Name |-> "first",  GeoSpatial |-> Point(-1224232460, 377792979)],
    [Name |-> "second", GeoSpatial |-> Point(-1224232681, 377792996)],
    [Name |-> "third",  GeoSpatial |-> Point(-1224232894, 377793048)],
    [Name |-> "fourth", GeoSpatial |-> Point(-1224232460, 377794781)],
    [Name |-> "fifth",  GeoSpatial |-> Point(-1244232460, 377794781)] >>

RefPoint == Point(-1224153346, 377787481)

OptsA100 == [Index |-> indexName, MaxDist |-> 100, MaxResults |-> 1024, Unit |-> "mi"]
OptsA == [Index |-> indexName, MaxDist |-> 250, MaxResults |-> 1024, Unit |-> "mi"]
OptsB == [Index |-> indexName, MaxDist |-> 100, MaxResults |-> 1024, Unit |-> "mi"]
OptsC == [Index |-> indexName, MaxDist |-> 100, MaxResults |-> 1024, Unit |-> "mi"]

NameArg == "first"

IndexOptsNoGeo == [Geo |-> FALSE]
IndexOpts == [Geo |-> TRUE]

\* the statements of func main after r.Connect
MainBodyNoFirstSleep == << "createTable", "insertRecords", "sleep",
                           "getNearestWithDistances", "sleep", "getNearest", "sleep",
                           "getNearestByName" >>
MainBody == << "createTable", "sleep", "insertRecords", "sleep",
               "getNearestWithDistances", "sleep", "getNearest", "sleep",
               "getNearestByName" >>

Functions == {"createTable", "insertRecords", "getNearestWithDistances",
              "getNearest", "getNearestByName"}

Entry(stmt) ==
    CASE stmt = "createTable" -> "drop"
      [] stmt = "insertRecords" -> "insert"
      [] stmt = "getNearestWithDistances" -> "queryA"
      [] stmt = "getNearest" -> "queryB"
      [] stmt = "getNearestByName" -> "queryC"
      [] stmt = "sleep" -> "sleep"

\* where control goes when the current function returns
Ret ==
    IF driver = "ops" THEN [pc |-> "idle", ip |-> ip]
    ELSE IF ip + 1 > Len(MainBody) THEN [pc |-> "done", ip |-> ip + 1]
    ELSE [pc |-> Entry(MainBody[ip + 1]), ip |-> ip + 1]

\* log.Fatalln: the line is logged and the process exits with status 1
FatalContinues(next) == next
Fatal(next) == [pc |-> "exit1", ip |-> ip]

\* insertRecords' handling of a failed insert: log.Println, then the next record
InsertBreakOnError(i, err) == IF err THEN Len(records) + 1 ELSE i + 1
InsertLoopNext(i, err) == i + 1

InsertErrExits(next) == [pc |-> "exit1", ip |-> ip]
InsertErrPc(next) == next

-----------------------------------------------------------------------------
(* Pure helpers *)

Abs(x) == IF x < 0 THEN -x ELSE x

\* In the definitions below a value used more than once is named by a bound
\* variable (x \in {e}), so that it is evaluated once.

MulDiv(x, num, den) == (x \div den) * num + ((x % den) * num) \div den

\* Products exceed the machine integers, so they are kept as five digits in
\* base 10000, least significant first.
Limbs(x) ==
    CHOOSE l \in { << v % 10000, (v \div 10000) % 10000, v \div 100000000 >> :
                   v \in {x} } : TRUE

\* the digits of the number whose coefficients are c
Carry(c) ==
    LET t1 == c[1]
        t2 == c[2] + t1 \div 10000
        t3 == c[3] + t2 \div 10000
        t4 == c[4] + t3 \div 10000
        t5 == c[5] + t4 \div 10000
    IN  << t1 % 10000, t2 % 10000, t3 % 10000, t4 % 10000, t5 >>

WideMul(x, y) ==
    CHOOSE w \in
      { Carry(c) :
          c \in { << a[1] * b[1],
                     a[1] * b[2] + a[2] * b[1],
                     a[1] * b[3] + a[2] * b[2] + a[3] * b[1],
                     a[2] * b[3] + a[3] * b[2],
                     a[3] * b[3] >> : a \in {Limbs(x)}, b \in {Limbs(y)} } } : TRUE

WideAdd(u, v) ==
    CHOOSE w \in { Carry(c) :
                   c \in { << a[1] + b[1], a[2] + b[2], a[3] + b[3], a[4] + b[4],
                              a[5] + b[5] >> : a \in {u}, b \in {v} } } : TRUE

WideLeq(u, v) ==
    \E a \in {u} : \E b \in {v} :
        ~ \E k \in 1..5 : a[k] > b[k] /\ \A j \in (k + 1)..5 : a[j] = b[j]

\* x * k / 10^8, rounded down
Scale(x, k) ==
    CHOOSE r \in { w[3] + 10000 * w[4] + 100000000 * w[5] : w \in {WideMul(x, k)} } : TRUE

\* the largest r in lo..hi with r * r <= n, for a wide n
RECURSIVE SqrtSearch(_, _, _)
SqrtSearch(n, lo, hi) ==
    IF lo >= hi THEN lo
    ELSE CHOOSE r \in { IF WideLeq(WideMul(mid, mid), n) THEN SqrtSearch(n, mid, hi)
                        ELSE SqrtSearch(n, lo, mid - 1) :
                        mid \in {(lo + hi + 1) \div 2} } : TRUE

\* sqrt(a * a + b * b), rounded down: with g the greater and l the lesser of
\* a and b, it lies between g and g + l * l / (2 * g)
Hypot(a, b) ==
    CHOOSE r \in
      { SqrtSearch(n, g, IF l = 0 THEN g ELSE g + l \div ((2 * g) \div l) + 1) :
          n \in {WideAdd(WideMul(a, a), WideMul(b, b))},
          g \in {IF a >= b THEN a ELSE b},
          l \in {IF a >= b THEN b ELSE a} } : TRUE

\* The geodesic distance on the WGS84 ellipsoid by the mid-latitude formula,
\* expanded at latitude 37.779 (Lat0), where the seed data lies.  Lengths are
\* in 1/1000000 mile: one unit of longitude is KX0 / 10^8 of them at Lat0 and
\* 0.7374 / 10^8 less per unit of mid-latitude, one unit of latitude is
\* KY0 / 10^8 and 0.01174 / 10^8 more; the chord of the parallel is longer than
\* the geodesic by (dx * sin(Lat0))^2 / 24 = dx^2 * Curv / 10^24 of its length.
\* For the spans of this program (up to 250 miles) the result is within a
\* unit of the geodesic distance for points at the latitude of the seed data
\* and within 1/100000 of it for points within 0.3 degree of that latitude.
Lat0 == 377790000
KX0 == 547399374
KY0 == 689674170
Curv == 47635

\* dx, dy: the differences of longitude and latitude; s: twice the distance of
\* the mid-latitude from Lat0
Geodesic(dx, dy, s) ==
    CHOOSE d \in
      { (h - Scale(Scale(h, Scale(dx, dx)), Curv)) \div 10 :
          h \in { Hypot(ex, ey) :
                    ex \in {Scale(dx, KX0 - MulDiv(s, 3687, 10000))},
                    ey \in {Scale(dy, KY0 + MulDiv(s, 587, 100000))} } } : TRUE

\* the store's distance between two points, in 1/100000 mile
Dist(p, q) ==
    CHOOSE d \in { Geodesic(dx, dy, s) :
                     dx \in {Abs(p.Lon - q.Lon)},
                     dy \in {Abs(p.Lat - q.Lat)},
                     s \in {p.Lat + q.Lat - 2 * Lat0} } : TRUE

\* Dist, with the distances of the seed points from RefPoint tabulated: the
\* table is computed once, the value is Dist(p, q) for all p and q
SeedPoints == {records[k].GeoSpatial : k \in 1..Len(records)}
SeedDist == [q \in SeedPoints |-> Dist(RefPoint, q)]
StoreDist(p, q) == IF p = RefPoint /\ q \in SeedPoints THEN SeedDist[q] ELSE Dist(p, q)

\* the size of a distance unit, in 1/100000 mile
UnitScale(unit) == CASE unit = "mi" -> 100000

Take(s, n) == SubSeq(s, 1, IF Len(s) <= n THEN Len(s) ELSE n)

SeqMap(F(_), s) ==
    CHOOSE r \in { Take([k \in 1..Len(t) |-> F(t[k])], Len(t)) : t \in {s} } : TRUE

Range(s) == {s[k] : k \in 1..Len(s)}

Last(s) == s[Len(s)]

-----------------------------------------------------------------------------
(* The store *)

\* table_drop: fails when the table does not exist
StoreTableDropErr(fault) == fault \/ tableName \notin tables

\* table_create: fails when the table exists
StoreTableCreateErr(fault) == fault \/ tableName \in tables

\* index_create: fails without the table or when the index exists
StoreIndexCreateErr(name, fault) ==
    fault \/ tableName \notin tables \/ \E x \in indexes : x.name = name

\* insert: fails without the table or on a duplicate primary key
StoreInsertErr(doc, fault) ==
    \/ fault
    \/ tableName \notin tables
    \/ "id" \in DOMAIN doc /\ \E k \in 1..Len(rows) : rows[k].id = doc.id

\* the document as stored: the store generates the id the document lacks
StoredDoc(doc) == IF "id" \in DOMAIN doc THEN doc ELSE ("id" :> nextId) @@ doc

\* get_nearest: fails without the table or without a geo index of that name
StoreGetNearestErr(opts, fault) ==
    \/ fault
    \/ tableName \notin tables
    \/ ~ \E x \in indexes : x.name = opts.Index /\ x.geo

\* the order of the result: by distance; equal distances in a store-defined
\* order (tb chooses it)
Before(a, b, tb) ==
    \/ a.dist < b.dist
    \/ a.dist = b.dist /\ (IF tb THEN a.doc.id < b.doc.id ELSE a.doc.id > b.doc.id)

\* the sequence s in the order Before: the element at position i is the one
\* with i - 1 elements before it
SortNearest(s, tb) ==
    [i \in 1..Len(s) |->
        s[CHOOSE k \in 1..Len(s) :
             Cardinality({j \in 1..Len(s) : Before(s[j], s[k], tb)}) = i - 1]]

\* the documents of the table with their distances to ref
Scored(ref) == [k \in 1..Len(rows) |-> [dist |-> StoreDist(ref, rows[k].area), doc |-> rows[k]]]

StoreGetNearest(ref, opts, tb) ==
    CHOOSE res \in
       { Take(SortNearest(near, tb), opts.MaxResults) :
            near \in { SelectSeq(Scored(ref),
                                 LAMBDA e : e.dist <= opts.MaxDist * UnitScale(opts.Unit)) } } :
       TRUE

-----------------------------------------------------------------------------
(* The driver's encoding and decoding (struct tags of Record) *)

RecordDocWithId(rec) == [id |-> 0, name |-> rec.Name, area |-> rec.GeoSpatial]
RecordDoc(rec) == [name |-> rec.Name, area |-> rec.GeoSpatial]

\* the nil pointer: a value that is no Record
Nil == [nil |-> TRUE]

\* decoding into Record: the fields the struct names, zero values for the
\* fields the object lacks; the object's other fields (id) are dropped
DecodeRecord(obj) ==
    [Name |-> IF "name" \in DOMAIN obj THEN obj.name ELSE "",
     GeoSpatial |-> IF "area" \in DOMAIN obj THEN obj.area ELSE Point(0, 0)]

\* decoding into RecordWithDistance: Doc is a *Record, which stays nil when
\* the object has no field doc
DecodeRecordWithDistance(obj) ==
    [Dist |-> IF "dist" \in DOMAIN obj THEN obj.dist ELSE 0,
     Doc  |-> IF "doc" \in DOMAIN obj THEN DecodeRecord(obj.doc) ELSE Nil]

\* .Do(func(doc) doc.Field("doc")): get_field on a sequence takes the field of
\* each element
DoFieldIdentity(s) == s
DoFieldDoc(s) == SeqMap(LAMBDA e : e.doc, SelectSeq(s, LAMBDA e : "doc" \in DOMAIN e))

\* .Filter(r.Row.Field("name").Eq(name))
FilterNone(s, name) == s
FilterByName(s, name) == SelectSeq(s, LAMBDA d : "name" \in DOMAIN d /\ d.name = name)

\* for k := range rows { printStructAsJSON(rows[k]) }
PrintWholeList(by, rs) == << [kind |-> "json", by |-> by, row |-> rs] >>
PrintRows(by, rs) == SeqMap(LAMBDA r : [kind |-> "json", by |-> by, row |-> r], rs)

-----------------------------------------------------------------------------
(* Initial states *)

GeoIndex == [name |-> indexName, geo |-> TRUE]

StaleRows == << [id |-> 901, name |-> "first", area |-> Point(-1224232460, 377792979)],
                [id |-> 902, name |-> "fifth", area |-> Point(-1244232460, 377794781)] >>

\* the states the store can be in when the program starts: a first run, a
\* database with another table, and what earlier runs can leave behind
InitStores ==
    { [tables |-> {}, indexes |-> {}, rows |-> << >>],
      [tables |-> {"other"}, indexes |-> {}, rows |-> << >>],
      [tables |-> {tableName}, indexes |-> {}, rows |-> << >>],
      [tables |-> {tableName}, indexes |-> {GeoIndex}, rows |-> << >>],
      [tables |-> {tableName, "other"}, indexes |-> {GeoIndex}, rows |-> StaleRows] }

InitCommon ==
    /\ ip = 0
    /\ idx = 1
    /\ \E s \in InitStores :
          /\ tables = s.tables
          /\ indexes = s.indexes
          /\ rows = s.rows
          /\ loads = IF tableName \in s.tables /\ s.rows = << >> THEN 0 ELSE -1
    /\ nextId = 1
    /\ rowsA = << >>
    /\ rowsB = << >>
    /\ rowsC = << >>
    /\ log = << >>
    /\ trace = << >>
    /\ errs = << >>
    /\ attempts = << >>
    /\ base = 0
    /\ snaps = << >>
    /\ nfaults = 0

Init == driver = "main" /\ pc = "connect" /\ InitCommon

InitOps == driver = "ops" /\ pc = "idle" /\ InitCommon

-----------------------------------------------------------------------------
(* Steps *)

\* the external faults the environment may inject at this call
FaultChoices == IF driver = "main" \/ nfaults < MaxOpFaults THEN BOOLEAN ELSE {FALSE}

Counted(fault) == IF fault /\ driver = "ops" THEN nfaults + 1 ELSE nfaults

Cause(fault) == IF fault THEN "fault" ELSE "store"

Goto(target) == pc' = target.pc /\ ip' = target.ip

Here(p) == [pc |-> p, ip |-> ip]

\* main: r.Connect, log.Fatalln on error
Connect ==
    /\ driver = "main"
    /\ pc = "connect"
    /\ \E fault \in BOOLEAN :
          /\ trace' = Append(trace, "connect")
          /\ IF fault
             THEN /\ log' = Append(log, [kind |-> "fatal", text |-> "Cannot connect"])
                  /\ errs' = Append(errs, [step |-> "connect", cause |-> "fault"])
                  /\ Goto(Fatal([pc |-> Entry(MainBody[1]), ip |-> 1]))
             ELSE /\ UNCHANGED <<log, errs>>
                  /\ Goto([pc |-> Entry(MainBody[1]), ip |-> 1])
    /\ UNCHANGED <<driver, idx, tables, indexes, rows, nextId, rowsA, rowsB, rowsC,
                   attempts, base, snaps, loads, nfaults>>

\* createTable: TableDrop(...).Exec, the error discarded
TableDrop ==
    /\ pc = "drop"
    /\ \E fault \in FaultChoices :
          LET err == StoreTableDropErr(fault)
          IN  /\ trace' = Append(trace, "createTable")
              /\ tables' = IF err THEN tables ELSE tables \ {tableName}
              /\ indexes' = IF err THEN indexes ELSE {}
              /\ rows' = IF err THEN rows ELSE << >>
              /\ loads' = IF err THEN loads ELSE -1
              /\ errs' = IF err THEN Append(errs, [step |-> "drop", cause |-> Cause(fault)])
                         ELSE errs
              /\ nfaults' = Counted(fault)
    /\ Goto(Here("create"))
    /\ UNCHANGED <<driver, idx, nextId, rowsA, rowsB, rowsC, log, attempts, base, snaps>>

\* createTable: TableCreate(...).Exec, log.Fatalln on error
TableCreate ==
    /\ pc = "create"
    /\ \E fault \in FaultChoices :
          LET err == StoreTableCreateErr(fault)
          IN  /\ nfaults' = Counted(fault)
              /\ IF err
                 THEN /\ log' = Append(log, [kind |-> "fatal", text |-> "Cannot create table"])
                      /\ errs' = Append(errs, [step |-> "create", cause |-> Cause(fault)])
                      /\ Goto(Fatal(Here("index")))
                      /\ UNCHANGED <<tables, indexes, rows, loads>>
                 ELSE /\ tables' = tables \cup {tableName}
                      /\ indexes' = {}
                      /\ rows' = << >>
                      /\ loads' = 0
                      /\ Goto(Here("index"))
                      /\ UNCHANGED <<log, errs>>
    /\ UNCHANGED <<driver, idx, nextId, rowsA, rowsB, rowsC, trace, attempts, base, snaps>>

\* createTable: IndexCreate(indexName, {Geo: true}).Exec, log.Fatalln on error
IndexCreate ==
    /\ pc = "index"
    /\ \E fault \in FaultChoices :
          LET err == StoreIndexCreateErr(indexName, fault)
          IN  /\ nfaults' = Counted(fault)
              /\ IF err
                 THEN /\ log' = Append(log, [kind |-> "fatal", text |-> "Cannot create index"])
                      /\ errs' = Append(errs, [step |-> "index", cause |-> Cause(fault)])
                      /\ Goto(Fatal(Ret))
                      /\ UNCHANGED indexes
                 ELSE /\ indexes' = indexes \cup {[name |-> indexName, geo |-> IndexOpts.Geo]}
                      /\ Goto(Ret)
                      /\ UNCHANGED <<log, errs>>
    /\ snaps' = IF pc' = "exit1" THEN snaps
                ELSE Append(snaps, [tables |-> tables, indexes |-> indexes',
                                    nrows |-> Len(rows)])
    /\ UNCHANGED <<driver, idx, tables, rows, nextId, rowsA, rowsB, rowsC, trace,
                   attempts, base, loads>>

\* insertRecords: one iteration of the loop over records
Insert ==
    /\ pc = "insert"
    /\ \E fault \in FaultChoices :
          LET rec  == records[idx]
              doc  == RecordDoc(rec)
              err  == StoreInsertErr(doc, fault)
              nxt  == InsertLoopNext(idx, err)
              att  == Append(IF idx = 1 THEN << >> ELSE attempts,
                             [name |-> rec.Name, ok |-> ~err, fault |-> fault])
              over == nxt > Len(records)
              to   == IF over THEN Ret ELSE Here("insert")
          IN  /\ trace' = IF idx = 1 THEN Append(trace, "insertRecords") ELSE trace
              /\ base' = IF idx = 1 THEN Len(rows) ELSE base
              /\ attempts' = att
              /\ rows' = IF err THEN rows ELSE Append(rows, StoredDoc(doc))
              /\ nextId' = IF ~err /\ "id" \notin DOMAIN doc THEN nextId + 1 ELSE nextId
              /\ log' = IF err
                        THEN Append(log, [kind |-> "error", text |-> "Cannot create record"])
                        ELSE log
              /\ errs' = IF err
                         THEN Append(errs, [step |-> "insert", cause |-> Cause(fault)])
                         ELSE errs
              /\ nfaults' = Counted(fault)
              /\ idx' = IF over THEN 1 ELSE nxt
              /\ loads' = IF ~over THEN loads
                          ELSE IF loads >= 0 /\ \A k \in 1..Len(att) : ~att[k].fault
                               THEN loads + 1 ELSE -1
              /\ Goto(IF err THEN InsertErrPc(to) ELSE to)
    /\ UNCHANGED <<driver, tables, indexes, snaps, rowsA, rowsB, rowsC>>

\* what query.Run and res.All can do: succeed, fail in Run (nothing decoded),
\* or fail in All after n rows were decoded
QueryOutcomes(opts, full) ==
    IF StoreGetNearestErr(opts, FALSE)
    THEN { [err |-> TRUE, cause |-> "store", n |-> 0] }
    ELSE { [err |-> FALSE, cause |-> "none", n |-> Len(full)] }
         \cup (IF TRUE \in FaultChoices
               THEN { [err |-> TRUE, cause |-> "fault", n |-> 0] }
                    \cup { [err |-> TRUE, cause |-> "fault", n |-> k] :
                              k \in 0..(Len(full) - 1) }
               ELSE {})

\* the rows a query function is left with: the rows decoded before the error
Got(full, o) == Take(full, o.n)

\* the common shape of the three query functions: Run, All, the error logged,
\* the rows printed
QueryStep(fn, by, full, o) ==
    /\ trace' = Append(trace, fn)
    /\ log' = (IF o.err THEN Append(log, [kind |-> "error", text |-> by]) ELSE log)
              \o PrintRows(by, Got(full, o))
    /\ errs' = IF o.err THEN Append(errs, [step |-> by, cause |-> o.cause]) ELSE errs
    /\ nfaults' = Counted(o.cause = "fault")
    /\ Goto(Ret)

ResultA(tb) == SeqMap(DecodeRecordWithDistance, StoreGetNearest(RefPoint, OptsA, tb))

ResultB(tb) == SeqMap(DecodeRecord, DoFieldDoc(StoreGetNearest(RefPoint, OptsB, tb)))

ResultC(name, tb) ==
    SeqMap(DecodeRecord,
           FilterByName(DoFieldDoc(StoreGetNearest(RefPoint, OptsC, tb)), name))

GetNearestWithDistances ==
    /\ pc = "queryA"
    /\ \E tb \in BOOLEAN :
          \E full \in {ResultA(tb)} :
             \E o \in QueryOutcomes(OptsA, full) :
                /\ rowsA' = Got(full, o)
                /\ QueryStep("getNearestWithDistances", "A", full, o)
    /\ UNCHANGED <<driver, idx, tables, indexes, rows, nextId, rowsB, rowsC,
                   attempts, base, snaps, loads>>

GetNearest ==
    /\ pc = "queryB"
    /\ \E tb \in BOOLEAN :
          \E full \in {ResultB(tb)} :
             \E o \in QueryOutcomes(OptsB, full) :
                /\ rowsB' = Got(full, o)
                /\ QueryStep("getNearest", "B", full, o)
    /\ UNCHANGED <<driver, idx, tables, indexes, rows, nextId, rowsA, rowsC,
                   attempts, base, snaps, loads>>

GetNearestByName ==
    /\ pc = "queryC"
    /\ \E tb \in BOOLEAN :
          \E full \in {ResultC(NameArg, tb)} :
             \E o \in QueryOutcomes(OptsC, full) :
                /\ rowsC' = Got(full, o)
                /\ QueryStep("getNearestByName", "C", full, o)
    /\ UNCHANGED <<driver, idx, tables, indexes, rows, nextId, rowsA, rowsB,
                   attempts, base, snaps, loads>>

\* main: time.Sleep(1 * time.Second)
Sleep ==
    /\ driver = "main"
    /\ pc = "sleep"
    /\ trace' = Append(trace, "sleep")
    /\ Goto(Ret)
    /\ UNCHANGED <<driver, idx, tables, indexes, rows, nextId, rowsA, rowsB, rowsC,
                   log, errs, attempts, base, snaps, loads, nfaults>>

\* ops: one of the program's functions is called with the session
Call ==
    /\ driver = "ops"
    /\ pc = "idle"
    /\ Len(trace) < MaxCalls
    /\ \E f \in Functions : pc' = Entry(f)
    /\ UNCHANGED <<driver, ip, idx, tables, indexes, rows, nextId, rowsA, rowsB, rowsC,
                   log, trace, errs, attempts, base, snaps, loads, nfaults>>

Next ==
    \/ Connect
    \/ TableDrop
    \/ TableCreate
    \/ IndexCreate
    \/ Insert
    \/ GetNearestWithDistances
    \/ GetNearest
    \/ GetNearestByName
    \/ Sleep

NextOps ==
    \/ Call
    \/ TableDrop
    \/ TableCreate
    \/ IndexCreate
    \/ Insert
    \/ GetNearestWithDistances
    \/ GetNearest
    \/ GetNearestByName

\* func main, from any initial store
Spec == Init /\ [][Next]_vars

\* func main; every call into the store returns, so the program keeps going
LiveSpec == Init /\ [][Next]_vars /\ WF_vars(Next)

\* the functions called one by one, in any order, from any initial store
SpecOps == InitOps /\ [][NextOps]_vars

-----------------------------------------------------------------------------
(* Vocabulary of the properties *)

SeedNames == SeqMap(LAMBDA r : r.Name, records)

Ran(fn) == fn \in Range(trace)

LoaderDone == Ran("insertRecords") /\ pc # "insert"

Failed(steps) == \E k \in 1..Len(errs) : errs[k].step \in steps

NumFailed(steps) == Cardinality({k \in 1..Len(errs) : errs[k].step \in steps})

NumLogged(kind) == Cardinality({k \in 1..Len(log) : log[k].kind = kind})

NumPrinted(by) ==
    Cardinality({k \in 1..Len(log) : log[k].kind = "json" /\ log[k].by = by})

AllInsertsOk ==
    /\ LoaderDone
    /\ Len(attempts) = Len(records)
    /\ \A k \in 1..Len(attempts) : attempts[k].ok

AllInsertsFailed ==
    /\ LoaderDone
    /\ Len(attempts) = Len(records)
    /\ \A k \in 1..Len(attempts) : ~attempts[k].ok

IsPrefix(s, t) == Len(s) <= Len(t) /\ \A k \in 1..Len(s) : s[k] = t[k]

Ascending(rs) == \A k \in 1..(Len(rs) - 1) : rs[k].Dist <= rs[k + 1].Dist

CountName(n) == Cardinality({k \in 1..Len(rows) : rows[k].name = n})

DistinctIds == \A j, k \in 1..Len(rows) : j # k => rows[j].id # rows[k].id

\* the rows stored by the current insertRecords, without their generated ids
Loaded == [k \in 1..(Len(rows) - base) |->
              [name |-> rows[base + k].name, area |-> rows[base + k].area]]

OkDocs == SeqMap(LAMBDA k : [name |-> records[k].Name, area |-> records[k].GeoSpatial],
                 SelectSeq([k \in 1..Len(attempts) |-> k], LAMBDA k : attempts[k].ok))

QueryFn(by) ==
    CASE by = "A" -> "getNearestWithDistances"
      [] by = "B" -> "getNearest"
      [] by = "C" -> "getNearestByName"

RowsOf(by) == CASE by = "A" -> rowsA [] by = "B" -> rowsB [] by = "C" -> rowsC

GeoReady == tableName \in tables /\ \E x \in indexes : x.name = indexName /\ x.geo

-----------------------------------------------------------------------------
(* Properties *)

\* C1: in a run of main where the five inserts succeeded and the Mode A query
\* ran and decoded without error, rowsA holds the five seed records, each with
\* a distance >= 0 and at most 250 miles, in ascending order of distance.
C1_ModeAReturnsAllFive ==
    (driver = "main" /\ Ran("getNearestWithDistances") /\ AllInsertsOk /\ ~Failed({"A"}))
    => /\ Len(rowsA) = 5
       /\ {rowsA[k].Doc : k \in 1..Len(rowsA)} = Range(records)
       /\ \A k \in 1..Len(rowsA) :
             /\ DOMAIN rowsA[k] = {"Dist", "Doc"}
             /\ rowsA[k].Dist >= 0
             /\ rowsA[k].Dist <= 250 * UnitScale("mi")
       /\ Ascending(rowsA)

C1_Witness ==
    /\ pc = "done" /\ AllInsertsOk /\ ~Failed({"A"})
    /\ Len(rowsA) = 5
    /\ rowsA[1].Doc.Name = "first" /\ rowsA[1].Dist = 43472
    /\ rowsA[5].Doc.Name = "fifth" /\ rowsA[5].Dist > 100 * UnitScale("mi")

\* C2: in a run of main where the five inserts succeeded and the Mode B query
\* ran and decoded without error, rowsB holds exactly the records first,
\* second, third and fourth, not fifth, each a bare record without a distance.
C2_ModeBReturnsFourBare ==
    (driver = "main" /\ Ran("getNearest") /\ AllInsertsOk /\ ~Failed({"B"}))
    => /\ Len(rowsB) = 4
       /\ Range(rowsB) = {records[k] : k \in 1..4}
       /\ \A k \in 1..Len(rowsB) :
             /\ rowsB[k].Name # "fifth"
             /\ DOMAIN rowsB[k] = {"Name", "GeoSpatial"}

C2_Witness ==
    /\ pc = "done" /\ AllInsertsOk /\ ~Failed({"B"})
    /\ Len(rowsB) = 4
    /\ Len(rowsA) = 5

\* C3: in a run of main where the five inserts succeeded and the Mode C query
\* (name "first") ran and decoded without error, rowsC holds exactly one
\* record, and its name is "first".
C3_ModeCReturnsFirstOnly ==
    (driver = "main" /\ Ran("getNearestByName") /\ AllInsertsOk /\ ~Failed({"C"}))
    => /\ Len(rowsC) = 1
       /\ rowsC[1].Name = "first"
       /\ rowsC[1] = records[1]

C3_Witness ==
    /\ pc = "done" /\ AllInsertsOk /\ ~Failed({"C"})
    /\ Len(rowsC) = 1
    /\ Len(rowsB) = 4

\* C4: a failed connection, table creation or index creation ends the process
\* at that step: the fatal line is the last line logged, the failing step is
\* the last step begun, no insert and no query was executed, and the process
\* has exited; conversely the process exits for no other reason.
C4_FatalStopsAtStep ==
    /\ Failed({"connect", "create", "index"}) <=> pc = "exit1"
    /\ pc = "exit1" <=> NumLogged("fatal") = 1
    /\ \A k \in 1..Len(log) :
          log[k].kind = "fatal"
          => /\ k = Len(log)
             /\ Last(errs).step \in {"connect", "create", "index"}
             /\ Last(trace) = (IF Last(errs).step = "connect" THEN "connect"
                               ELSE "createTable")
             /\ log[k].text = (CASE Last(errs).step = "connect" -> "Cannot connect"
                                 [] Last(errs).step = "create" -> "Cannot create table"
                                 [] Last(errs).step = "index" -> "Cannot create index")
             /\ Last(errs).step # "index" => snaps = << >> /\ indexes \in
                   {s.indexes : s \in InitStores}
             /\ ~Ran("insertRecords") /\ attempts = << >>
             /\ rowsA = << >> /\ rowsB = << >> /\ rowsC = << >>
             /\ NumLogged("json") = 0

C4_Witness ==
    /\ pc = "exit1"
    /\ Last(log).text = "Cannot create index"
    /\ tableName \in tables
    /\ indexes = {}
    /\ trace = << "connect", "createTable" >>

\* C5 as stated: every table-drop, insert and query failure is logged, and
\* none of them ends the process.
C5_EveryFailureLogged ==
    /\ NumLogged("error") = NumFailed({"drop", "insert", "A", "B", "C"})
    /\ Failed({"drop", "insert", "A", "B", "C"}) /\ pc = "exit1"
       => Failed({"connect", "create", "index"})

\* what a query that failed leaves in its rows: nothing, or the first rows of
\* the full result
Degraded(by, got, full) ==
    Ran(QueryFn(by))
    => IF Failed({by}) THEN Len(got) < Len(full) \/ got = << >>
       ELSE got = full

C5_State ==
    /\ NumLogged("error") = NumFailed({"insert", "A", "B", "C"})
    /\ Failed({"insert", "A", "B", "C"}) => pc # "exit1"
    /\ \E tb \in BOOLEAN :
          /\ IsPrefix(rowsA, ResultA(tb)) /\ Degraded("A", rowsA, ResultA(tb))
          /\ IsPrefix(rowsB, ResultB(tb)) /\ Degraded("B", rowsB, ResultB(tb))
          /\ IsPrefix(rowsC, ResultC(NameArg, tb))
          /\ Degraded("C", rowsC, ResultC(NameArg, tb))
    /\ NumPrinted("A") = Len(rowsA)
    /\ NumPrinted("B") = Len(rowsB)
    /\ NumPrinted("C") = Len(rowsC)

\* a step in which a drop, an insert or a query fails goes on to the next step
C5_Step ==
    (Len(errs') > Len(errs) /\ Last(errs').step \in {"drop", "insert", "A", "B", "C"})
    => /\ pc' # "exit1"
       /\ Last(errs').step = "drop" => pc' = "create" /\ log' = log
       /\ Last(errs').step # "drop" =>
             /\ Len(log') > Len(log)
             /\ log'[Len(log) + 1].kind = "error"

\* C5, amended: a table-drop failure is ignored without a log line and the
\* program goes on to the table creation; an insert failure and a query
\* failure are each logged once, the program goes on to its next step and
\* reaches normal completion; a failed query leaves no rows or the first rows
\* of its result, and a query that did not fail leaves its full result
\* whatever failed before it.
C5_RecoverableFailures ==
    /\ []C5_State
    /\ [][C5_Step]_vars
    /\ (Failed({"insert", "A", "B", "C"}) ~> pc = "done")
    /\ ((Failed({"drop"}) /\ LoaderDone) ~> pc = "done")

C5_Witness ==
    /\ pc = "done"
    /\ Failed({"drop"}) /\ Failed({"insert"}) /\ Failed({"A"}) /\ Failed({"B"})
    /\ NumLogged("error") = NumFailed({"insert", "A", "B", "C"})
    /\ Len(rowsA) > 0
    /\ Len(rowsC) = 1

\* the steps of main, and the steps with the delays before them
StepOrder == << "connect", "createTable", "insertRecords", "getNearestWithDistances",
                "getNearest", "getNearestByName" >>

TimedOrder == << "connect", "createTable", "sleep", "insertRecords", "sleep",
                 "getNearestWithDistances", "sleep", "getNearest", "sleep",
                 "getNearestByName" >>

\* C6 as stated: the steps run in the order connect, schema setup, record
\* load, Mode A, Mode B, Mode C, and every step after the first begins only
\* after a delay that follows the previous step.
C6_EveryStepGated ==
    /\ IsPrefix(SelectSeq(trace, LAMBDA e : e # "sleep"), StepOrder)
    /\ \A k \in 2..Len(trace) : trace[k] # "sleep" => trace[k - 1] = "sleep"

\* C6, amended: the steps run in the order connect, schema setup, delay,
\* record load, delay, Mode A, delay, Mode B, delay, Mode C: a delay precedes
\* every step from the record load on, and none separates the connection from
\* the schema setup.  Each query prints its rows inside its own step, before
\* the delay that follows it.
C6_OrderAndDelays ==
    /\ IsPrefix(trace, TimedOrder)
    /\ pc = "done" => trace = TimedOrder
    /\ \A k \in 1..Len(trace) : trace[k] = "sleep" => k > 2
    /\ Ran("getNearestWithDistances") => NumPrinted("A") = Len(rowsA)
    /\ Ran("getNearest") => NumPrinted("B") = Len(rowsB)
    /\ ~Ran("getNearest") => NumPrinted("B") = 0
    /\ ~Ran("getNearestByName") => NumPrinted("C") = 0

C6_Witness ==
    /\ pc = "done"
    /\ trace = TimedOrder
    /\ NumPrinted("A") = 5 /\ NumPrinted("B") = 4 /\ NumPrinted("C") = 1

\* the schema createTable is to leave: the table with the one geo index, empty
Fresh(s) ==
    /\ tableName \in s.tables
    /\ s.indexes = {GeoIndex}
    /\ s.nrows = 0

\* C7: every createTable that returns leaves the table geospatial with exactly
\* the geo index area and no rows, whatever the store held before; two calls in
\* a row leave the same schema as the first of them.
C7_SchemaSetupIdempotent ==
    /\ \A k \in 1..Len(snaps) : Fresh(snaps[k])
    /\ (pc = "idle" /\ Len(trace) > 0 /\ Last(trace) = "createTable")
       => /\ Len(snaps) > 0
          /\ Last(snaps) = [tables |-> tables, indexes |-> indexes, nrows |-> Len(rows)]
    /\ (pc = "idle" /\ trace = << "createTable", "createTable" >>)
       => Len(snaps) = 2 /\ snaps[1] = snaps[2]

C7_Witness ==
    /\ driver = "ops" /\ pc = "idle"
    /\ trace = << "createTable", "createTable" >>
    /\ Len(snaps) = 2
    /\ "other" \in tables
    /\ rows = << >>
    /\ nextId = 1

\* C8: after n runs of insertRecords on a table that was empty, with no reset
\* in between and no external fault, the table holds 5n records, each of the
\* five names n times, under pairwise distinct identifiers: ten records after
\* two runs.
C8_LoaderAppends ==
    (pc = "idle" /\ loads >= 0)
    => /\ Len(rows) = 5 * loads
       /\ \A k \in 1..Len(records) : CountName(records[k].Name) = loads
       /\ DistinctIds
       /\ loads > 0 => Len(attempts) = 5 /\ \A k \in 1..5 : attempts[k].ok

C8_Witness ==
    /\ driver = "ops" /\ pc = "idle"
    /\ loads = 2
    /\ Len(rows) = 10
    /\ CountName("third") = 2
    /\ trace = << "createTable", "insertRecords", "insertRecords" >>

\* C9: a query that ran in main while the table, created and indexed, held no
\* record left an empty rows list, met no error from the store (only an
\* external fault can fail it), printed nothing, and the program went on.
C9_EmptyTableQuery ==
    \A by \in {"A", "B", "C"} :
       (driver = "main" /\ Ran(QueryFn(by)) /\ rows = << >>)
       => /\ GeoReady
          /\ RowsOf(by) = << >>
          /\ \A k \in 1..Len(errs) : errs[k].step = by => errs[k].cause = "fault"
          /\ NumPrinted(by) = 0
          /\ pc # "exit1"

C9_Witness ==
    /\ pc = "done"
    /\ AllInsertsFailed
    /\ rows = << >>
    /\ ~Failed({"A", "B", "C"})
    /\ NumLogged("error") = 5
    /\ NumLogged("json") = 0

\* C10: insertRecords attempts the five seed records once each, in list order,
\* whatever fails; when it returns, the records it stored are exactly the seed
\* records whose insert succeeded, in that order.
C10_LoaderBestEffort ==
    /\ (pc = "insert" /\ idx > 1)
       => SeqMap(LAMBDA a : a.name, attempts) = SubSeq(SeedNames, 1, idx - 1)
    /\ LoaderDone
       => /\ SeqMap(LAMBDA a : a.name, attempts) = SeedNames
          /\ Loaded = OkDocs
          /\ driver = "main" => base = 0
          /\ NumFailed({"insert"}) = Cardinality({k \in 1..Len(attempts) : ~attempts[k].ok})

C10_Witness ==
    /\ pc = "done"
    /\ SeqMap(LAMBDA a : a.ok, attempts) = << TRUE, FALSE, TRUE, FALSE, TRUE >>
    /\ SeqMap(LAMBDA r : r.name, rows) = << "first", "third", "fifth" >>

====
